---- MODULE Spec2Model ----
(***************************************************************************)
(* Model of beetsplug/subsonic.py (SubsonicPlugin): the four commands      *)
(* start_scan, subsonic_get_ids, subsonic_add_rating, subsonic_scrobble,   *)
(* the matcher get_song_id and the transport send_request.                 *)
(*                                                                         *)
(* Strings are sequences of one-character strings, so that lower(),        *)
(* strip(), split() and the `in` substring test are computed.              *)
(***************************************************************************)
EXTENDS Integers, Sequences, FiniteSets, TLC

VARIABLES auth, items, subsonic_id, server, session, op, payload, idx, task, counter, stores, scan, nops, authCalls

vars == <<auth, items, subsonic_id, server, session, op, payload, idx, task, counter, stores, scan, nops, authCalls>>

\* ------------------------------------------------------------------ bounds
MaxTracks == 4
MaxResults == 2
MaxOps == 2
MaxPool == 3
MaxHalfScale == 10
MaxPopularity == 100
MaxGeneric == 7
NumSalts == 2

\* ------------------------------------------------------- program constants
MAX_WORKERS == 3
SONG_COUNT == 20
ALBUM_COUNT == 10

\* ------------------------------------------------------------ python values
None == "None"
Absent == "Absent"

\* --------------------------------------------------------- string helpers
\* str.lower() on one character
LowerChar(c) == CASE c = "A" -> "a" [] c = "B" -> "b" [] c = "H" -> "h" [] OTHER -> c

\* str.lower()
Lower(s) == [i \in 1..Len(s) |-> LowerChar(s[i])]

IsSpace(c) == c = " "

RECURSIVE LStrip(_)
LStrip(s) == IF s # <<>> /\ IsSpace(Head(s)) THEN LStrip(Tail(s)) ELSE s

RECURSIVE RStrip(_)
RStrip(s) == IF s # <<>> /\ IsSpace(s[Len(s)]) THEN RStrip(SubSeq(s, 1, Len(s) - 1)) ELSE s

\* str.strip()
Strip(s) == RStrip(LStrip(s))

\* a in b  (substring test)
Contains(b, a) == \E i \in 0..(Len(b) - Len(a)) : SubSeq(b, i + 1, i + Len(a)) = a

\* "," in s
HasComma(s) == \E i \in 1..Len(s) : s[i] = ","

\* s.split(",")[0]
RECURSIVE SplitFirst(_)
SplitFirst(s) == IF s = <<>> \/ Head(s) = "," THEN <<>> ELSE <<Head(s)>> \o SplitFirst(Tail(s))

\* ----------------------------------------------------------- authenticate
\* the payload of authenticate(); salt is the random salt of __create_token
TokenPayload(salt) == [auth |-> "token", s |-> salt, v |-> "1.13.0"]
PasswordPayload == [auth |-> "password", s |-> 0, v |-> "1.12.0"]
NoPayload == [auth |-> "none", s |-> 0, v |-> ""]
Salts == 1..NumSalts

authenticate_lax(a) ==
    IF a = "token" THEN {TokenPayload(s) : s \in Salts}
    ELSE {PasswordPayload}

\* the set of values authenticate() can return under auth mode a; empty when it raises ValueError
authenticate(a) ==
    IF a = "token" THEN {TokenPayload(s) : s \in Salts}
    ELSE IF a = "password" THEN {PasswordPayload}
    ELSE {}

\* ----------------------------------------------------------- send_request
\* the payload of a response: search3 (song or album list), getAlbum (song list), scan status
Data(hasSong, song, hasAlbum, album, scanning, count) ==
    [hasSong |-> hasSong, song |-> song, hasAlbum |-> hasAlbum, album |-> album, scanning |-> scanning, count |-> count]
NoData == Data(FALSE, <<>>, FALSE, <<>>, FALSE, 0)

\* a raw HTTP response: status line, body decodes as JSON, envelope key
\* present, envelope status, error code, payload of the endpoint
RawOk(data) == [http |-> 200, json |-> TRUE, envelope |-> TRUE, status |-> "ok", code |-> 0, data |-> data]
RawErr(kind) ==
    CASE kind = "http" -> [http |-> 500, json |-> TRUE, envelope |-> TRUE, status |-> "ok", code |-> 0, data |-> NoData]
      [] kind = "decode" -> [http |-> 200, json |-> FALSE, envelope |-> FALSE, status |-> "", code |-> 0, data |-> NoData]
      [] kind = "protocol" -> [http |-> 200, json |-> TRUE, envelope |-> FALSE, status |-> "", code |-> 0, data |-> NoData]
      [] kind = "code70" -> [http |-> 200, json |-> TRUE, envelope |-> TRUE, status |-> "failed", code |-> 70, data |-> NoData]
      [] kind = "remote" -> [http |-> 200, json |-> TRUE, envelope |-> TRUE, status |-> "failed", code |-> 40, data |-> NoData]
ErrKinds == {"http", "decode", "protocol", "code70", "remote"}
ErrResponses == {RawErr(k) : k \in ErrKinds}

\* the value of send_request: [ok: a json was returned, raise: an exception
\* escaped, log: the line send_request logged, data: the endpoint's payload]
Result(ok, raise, line, data) == [ok |-> ok, raise |-> raise, log |-> line, data |-> data]

\* send_request without `except requests.exceptions.RequestException`
send_request_uncaught(raw) ==
    IF raw.http # 200 THEN Result(FALSE, TRUE, "", NoData)
    ELSE IF ~raw.json THEN Result(FALSE, FALSE, "Invalid JSON", NoData)
    ELSE IF ~raw.envelope THEN Result(FALSE, FALSE, "missing subsonic-response", NoData)
    ELSE IF raw.status = "ok" THEN Result(TRUE, FALSE, "", raw.data)
    ELSE Result(FALSE, FALSE, "error code", NoData)

send_request(raw) ==
    IF raw.http # 200 THEN Result(FALSE, FALSE, "RequestException", NoData)
    ELSE IF ~raw.json THEN Result(FALSE, FALSE, "Invalid JSON", NoData)
    ELSE IF ~raw.envelope THEN Result(FALSE, FALSE, "missing subsonic-response", NoData)
    ELSE IF raw.status = "ok" THEN Result(TRUE, FALSE, "", raw.data)
    ELSE IF raw.code = 70 THEN Result(FALSE, FALSE, "error 70", NoData)
    ELSE Result(FALSE, FALSE, "error code", NoData)

\* ------------------------------------------------------------ get_song_id
\* artist = item.artist.split(",")[0].strip() if "," in item.artist else item.artist
CleanArtist(item) == IF HasComma(item.artist) THEN Strip(SplitFirst(item.artist)) ELSE item.artist

NumStrategies == 5

\* search_strategies[k]()
search_strategies(item, k) ==
    CASE k = 1 -> Strip(item.title)
      [] k = 2 -> <<"\"">> \o Strip(item.title) \o <<"\"">>
      [] k = 3 -> Strip(item.title) \o <<" ">> \o Strip(item.album)
      [] k = 4 -> Strip(CleanArtist(item)) \o <<" ">> \o Strip(item.title)
      [] k = 5 -> Strip(item.album)

\* item.title.lower() == song["title"].lower()
ExactMatch(title, song) == Lower(title) = Lower(song.title)

\* a returned song record without "title" key: song["title"] raises KeyError
NoTitle == <<"KeyError">>
Malformed(song) == song.title = NoTitle

\* whether the loop over search_result["song"] reaches a record without title
\* before an exact match returns
SearchKeyError(title, songs) ==
    \E i \in 1..Len(songs) : Malformed(songs[i]) /\ \A j \in 1..(i - 1) : ~ExactMatch(title, songs[j])

\* the result loop without the early return: the last exact match wins
RECURSIVE ProcessSongs_last(_, _, _)
ProcessSongs_last(title, pool, songs) ==
    IF songs = <<>> THEN [pool |-> pool, found |-> FALSE, id |-> None]
    ELSE LET song == Head(songs)
             r == ProcessSongs_last(title, Append(pool, song), Tail(songs))
         IN IF r.found \/ ~ExactMatch(title, song) THEN r
            ELSE [pool |-> r.pool, found |-> TRUE, id |-> song.id]

\* the loop over search_result["song"]: every song is appended to
\* all_potential_matches, the first exact match returns its id
RECURSIVE ProcessSongs(_, _, _)
ProcessSongs(title, pool, songs) ==
    IF songs = <<>> THEN [pool |-> pool, found |-> FALSE, id |-> None]
    ELSE LET song == Head(songs)
             p == Append(pool, song)
         IN IF ExactMatch(title, song) THEN [pool |-> p, found |-> TRUE, id |-> song.id]
            ELSE ProcessSongs(title, p, Tail(songs))

\* title_normalized in song_title_normalized or song_title_normalized in title_normalized
LenientMatch(title, song) ==
    LET title_normalized == Strip(Lower(title))
        song_title_normalized == Strip(Lower(song.title))
    IN Contains(song_title_normalized, title_normalized) \/ Contains(title_normalized, song_title_normalized)

\* the lenient loop without the early return: the last lenient match wins
RECURSIVE LenientPass_last(_, _)
LenientPass_last(title, pool) ==
    IF pool = <<>> THEN None
    ELSE IF LenientMatch(title, pool[Len(pool)]) THEN pool[Len(pool)].id
    ELSE LenientPass_last(title, SubSeq(pool, 1, Len(pool) - 1))

\* the lenient loop over all_potential_matches: id of the first lenient match, or None
RECURSIVE LenientPass(_, _)
LenientPass(title, pool) ==
    IF pool = <<>> THEN None
    ELSE IF LenientMatch(title, Head(pool)) THEN Head(pool).id
    ELSE LenientPass(title, Tail(pool))

\* get_album_id_by_name taking the first album returned, whatever its name
AlbumLoop_first(album_name, albums) == IF albums = <<>> THEN None ELSE Head(albums).id

\* the loop of get_album_id_by_name over search_result["album"]
RECURSIVE AlbumLoop(_, _)
AlbumLoop(album_name, albums) ==
    IF albums = <<>> THEN None
    ELSE IF Contains(Lower(Head(albums).name), Lower(album_name)) THEN Head(albums).id
    ELSE AlbumLoop(album_name, Tail(albums))

\* whether the loop of find_song_in_album reaches a record without title before it returns
AlbumKeyError(song_title, songs) ==
    \E i \in 1..Len(songs) :
        /\ Malformed(songs[i])
        /\ \A j \in 1..(i - 1) : ~Contains(Lower(songs[j].title), Lower(song_title))

\* the loop of find_song_in_album over album_data["song"]
RECURSIVE SongLoop(_, _)
SongLoop(song_title, songs) ==
    IF songs = <<>> THEN None
    ELSE IF Contains(Lower(Head(songs).title), Lower(song_title)) THEN Head(songs).id
    ELSE SongLoop(song_title, Tail(songs))

\* ------------------------------------------------------- transform_rating
RoundHalf_up(x) == (x + 1) \div 2

\* round(x / 2) for an integer x: Python rounds halves to the even neighbour
RoundHalf(x) == IF x % 2 = 0 THEN x \div 2 ELSE IF ((x - 1) \div 2) % 2 = 0 THEN (x - 1) \div 2 ELSE (x + 1) \div 2

transform_rating(rating, rating_field) ==
    IF rating_field = "plex_userrating" THEN RoundHalf(rating)
    ELSE IF rating_field = "spotify_track_popularity" THEN
        IF rating * 100 < 1666 THEN 0
        ELSE IF rating * 100 < 3333 THEN 1
        ELSE IF rating < 50 THEN 2
        ELSE IF rating * 100 < 6666 THEN 3
        ELSE IF rating * 100 < 8333 THEN 4
        ELSE 5
    ELSE rating

\* ------------------------------------------------------------- the world
\* host items: title, artist, album, and the flexible attributes the item carries
Item(title, artist, album, attrs) == [title |-> title, artist |-> artist, album |-> album, attrs |-> attrs]
hasattr(item, field) == field \in DOMAIN item.attrs
getattr(item, field) == item.attrs[field]

Song(id, title) == [id |-> id, title |-> title]
Album(id, name) == [id |-> id, name |-> name]

S1 == Song("s1", <<"A">>)
S2 == Song("s2", <<"a", "b">>)
S3 == Song("s3", <<"b">>)
S4 == Song("s4", <<"a">>)
SBad == Song("s0", NoTitle)
Al1 == Album("al1", <<"T", "H">>)
Al2 == Album("al2", <<"t">>)

\* the remote library and the longest list one response carries
ExactServer == [songs |-> {S1, S3, S4}, albums |-> {Al1, Al2}, maxlen |-> MaxResults]
LenientServer == [songs |-> {S1, S2, S3}, albums |-> {Al1, Al2}, maxlen |-> MaxResults]
PoorServer == [songs |-> {S1}, albums |-> {Al1}, maxlen |-> 1]
PairServer == [songs |-> {S1, S3}, albums |-> {Al1}, maxlen |-> 1]
FaultServer == [songs |-> {S1, S3, SBad}, albums |-> {Al1}, maxlen |-> 1]

AllAttrs == ("plex_userrating" :> 7) @@ ("spotify_track_popularity" :> 20) @@ ("my_rating" :> 3) @@ ("plex_lastviewedat" :> 5)
NoTime == ("plex_userrating" :> 10) @@ ("my_rating" :> 4)
PlexOnly == ("plex_userrating" :> 9) @@ ("plex_lastviewedat" :> 9)

TrackA == Item(<<"a">>, <<"x", ",", " ", "y">>, <<"h">>, AllAttrs)
TrackSp == Item(<<" ", "a">>, <<"x">>, <<"t">>, NoTime)
TrackP == Item(<<"a">>, <<"x">>, <<"h">>, PlexOnly)
TrackB == Item(<<"B">>, <<"y">>, <<"h">>, NoTime)

RatingFields == {"plex_userrating", "spotify_track_popularity", "my_rating"}
AuthModes == {"token", "password", "digest"}

Lists(S, m) == UNION {[1..k -> S] : k \in 0..m}

\* what the remote can answer to each endpoint
SongData(has, l) == Data(has, l, FALSE, <<>>, FALSE, 0)
AlbumData(has, l) == Data(FALSE, <<>>, has, l, FALSE, 0)
SearchResponses == ErrResponses \cup {RawOk(SongData(FALSE, <<>>))}
                   \cup {RawOk(SongData(TRUE, l)) : l \in Lists(server.songs, server.maxlen)}
AlbumSearchResponses == ErrResponses \cup {RawOk(AlbumData(FALSE, <<>>))}
                   \cup {RawOk(AlbumData(TRUE, l)) : l \in Lists(server.albums, server.maxlen)}
GetAlbumResponses == SearchResponses
PushResponses == ErrResponses \cup {RawOk(NoData)}
ScanResponses == ErrResponses \cup {RawOk(Data(FALSE, <<>>, FALSE, <<>>, b, 1)) : b \in BOOLEAN}

\* ---------------------------------------------------------------- requests
Req(endpoint, cred, query, count, id, rating, time) ==
    [endpoint |-> endpoint, cred |-> cred, query |-> query, count |-> count, id |-> id, rating |-> rating, time |-> time]
NoCount == <<"", 0>>
NoReq == Req("none", NoPayload, <<>>, NoCount, None, 0, 0)
SearchReq(cred, query) == Req("search3", cred, query, <<"songCount", SONG_COUNT>>, None, 0, 0)
AlbumSearchReq(cred, album_name) == Req("search3", cred, album_name, <<"albumCount", ALBUM_COUNT>>, None, 0, 0)
GetAlbumReq(cred, album_id) == Req("getAlbum", cred, <<>>, NoCount, album_id, 0, 0)
SetRatingReq(cred, id, rating) == Req("setRating", cred, <<>>, NoCount, id, rating, 0)
ScrobbleReq(cred, id, time) == Req("scrobble", cred, <<>>, NoCount, id, 0, time)
ScanReq(endpoint, cred) == Req(endpoint, cred, <<>>, NoCount, None, 0, 0)

\* ------------------------------------------------------------------- state
N == Len(items)
Tracks == 1..N

IdleTask == [pc |-> "idle", k |-> 0, payload |-> NoPayload, pool |-> <<>>, req |-> NoReq,
             id |-> None, out |-> "", nreq |-> 0, failed |-> FALSE]
IdleScan == [pc |-> "idle", req |-> NoReq, nreq |-> 0, status |-> "", out |-> ""]
NoOp == [name |-> "none", force |-> FALSE, rating_field |-> "", st |-> "returned"]

InFlightPcs == {"search", "albumSearch", "getAlbum", "push"}
InFlight == {t \in Tracks : task[t].pc \in InFlightPcs}
Finished(t) == task[t].pc \in {"done", "raised"}

TypeOK ==
    /\ auth \in AuthModes
    /\ N \in 1..MaxTracks
    /\ op.st \in {"running", "returned", "raised"}
    /\ op.name \in {"none", "scan", "getids", "rate", "scrobble"}
    /\ idx \in 0..(N + 1)
    /\ \A t \in Tracks : task[t].pc \in InFlightPcs \cup {"idle", "queued", "done", "raised"}

\* The scenarios: (one) one track against a rich remote, resolved once;
\* (pool) MaxTracks tracks, all but the first resolved earlier, one command;
\* (pair) two unresolved tracks and a session of MaxOps commands;
\* (token) one track and one command under token authentication.
OneTrack == {<<TrackA>>, <<TrackSp>>}
OneServer(its) == IF its = <<TrackA>> THEN {ExactServer, LenientServer} ELSE {LenientServer}
PoolTracks == [i \in 1..MaxTracks |-> IF i = 2 THEN TrackP ELSE IF i = 3 THEN TrackSp ELSE TrackA]
PoolIds == {f \in [1..MaxTracks -> {Absent, None, "s1"}] : \A i \in 2..MaxTracks : f[i] = "s1"}
PairTracks == <<TrackA, TrackB>>
PairIds == {f \in [1..2 -> {Absent, "s1"}] : f[2] = Absent}
Commands == {"scan", "getids", "rate", "scrobble"}

InitWorld ==
    \/ /\ items \in OneTrack
       /\ server \in OneServer(items)
       /\ subsonic_id \in [1..1 -> {Absent}]
       /\ session = [cmds |-> {"getids"}, fields |-> RatingFields, maxops |-> 1]
       /\ auth = "password"
    \/ /\ items = PoolTracks
       /\ server = PoorServer
       /\ subsonic_id \in PoolIds
       /\ session = [cmds |-> Commands, fields |-> RatingFields, maxops |-> 1]
       /\ auth \in {"password", "digest"}
    \/ /\ items = PairTracks
       /\ server = PairServer
       /\ subsonic_id \in PairIds
       /\ session = [cmds |-> Commands, fields |-> {"plex_userrating"}, maxops |-> MaxOps]
       /\ auth \in {"password", "digest"}
    \/ /\ items = <<TrackA>>
       /\ server = PoorServer
       /\ subsonic_id \in [1..1 -> {Absent}]
       /\ session = [cmds |-> Commands, fields |-> RatingFields, maxops |-> 1]
       /\ auth = "token"

Init ==
    /\ InitWorld
    /\ op = NoOp
    /\ payload = NoPayload
    /\ idx = 0
    /\ task = [t \in Tracks |-> IdleTask]
    /\ counter = [t \in Tracks |-> 0]
    /\ stores = [t \in Tracks |-> 0]
    /\ scan = IdleScan
    /\ nops = 0
    /\ authCalls = 0

\* ------------------------------------------------- the per-item unit of work
Return(tk, id, out) == [tk EXCEPT !.pc = "done", !.req = NoReq, !.id = id, !.out = out]
Raise(tk, exc) == [tk EXCEPT !.pc = "raised", !.req = NoReq, !.out = exc]
Send(tk, pc, req) == [tk EXCEPT !.pc = pc, !.req = req, !.nreq = @ + 1]

RateContinue_nocheck(t, tk, id) ==
    IF ~hasattr(items[t], op.rating_field) THEN Return(tk, id, "No rating field")
    ELSE Send([tk EXCEPT !.id = id], "push",
              SetRatingReq(payload, id, transform_rating(getattr(items[t], op.rating_field), op.rating_field)))

\* update_rating from the point where the id is known (lines 418-444)
RateContinue(t, tk, id) ==
    IF id = None THEN Return(tk, None, "Could not find song ID")
    ELSE IF ~hasattr(items[t], op.rating_field) THEN Return(tk, id, "No rating field")
    ELSE Send([tk EXCEPT !.id = id], "push",
              SetRatingReq(payload, id, transform_rating(getattr(items[t], op.rating_field), op.rating_field)))

\* scrobble from the point where the id is known (lines 523-532)
ScrobbleContinue(t, tk, id) ==
    IF ~hasattr(items[t], "plex_lastviewedat") THEN Return(tk, id, "No scrobble time")
    ELSE Send([tk EXCEPT !.id = id], "push",
              ScrobbleReq(payload, id, getattr(items[t], "plex_lastviewedat") * 1000))

\* get_song_id returns id to its caller: the future of subsonic_get_ids,
\* update_rating or scrobble
AfterResolve(t, tk, id, how) ==
    LET r == [tk EXCEPT !.out = how]
    IN CASE op.name = "getids" -> Return(r, id, how)
         [] op.name = "rate" -> RateContinue(t, r, id)
         [] op.name = "scrobble" -> ScrobbleContinue(t, r, id)

BeginResolve_shared(t, tk) ==
    {Send([tk EXCEPT !.payload = payload, !.k = 1, !.pool = <<>>], "search",
          SearchReq(payload, search_strategies(items[t], 1)))}

\* the start of get_song_id: authenticate, then the first strategy's request
BeginResolve(t, tk) ==
    IF authenticate(auth) = {} THEN {Raise(tk, "ValueError")}
    ELSE {Send([tk EXCEPT !.payload = p, !.k = 1, !.pool = <<>>], "search",
               SearchReq(p, search_strategies(items[t], 1))) : p \in authenticate(auth)}

\* after the strategy loop: the lenient pass, then the album fallback's first request
AfterCascade(t, tk) ==
    LET lid == IF tk.pool # <<>> THEN LenientPass(items[t].title, tk.pool) ELSE None
    IN IF lid # None THEN AfterResolve(t, tk, lid, "Lenient match found")
       ELSE Send(tk, "albumSearch", AlbumSearchReq(tk.payload, items[t].album))

NextStrategy_retry(t, tk) ==
    IF tk.nreq < NumStrategies
    THEN Send(tk, "search", SearchReq(tk.payload, search_strategies(items[t], tk.k)))
    ELSE AfterCascade(t, tk)

\* `continue`: the next strategy's request, or the end of the loop
NextStrategy(t, tk) ==
    IF tk.k < NumStrategies
    THEN Send([tk EXCEPT !.k = @ + 1], "search", SearchReq(tk.payload, search_strategies(items[t], tk.k + 1)))
    ELSE AfterCascade(t, tk)

\* whether the last send_request of the unit of work logged a failure and returned None
Heard(tk, js) == [tk EXCEPT !.failed = ~js.ok]

OnSearch_mixed(t, tk, js) ==
    IF js.raise THEN Raise(tk, "Exception")
    ELSE IF ~js.ok THEN NextStrategy(t, tk)
    ELSE IF ~js.data.hasSong THEN NextStrategy(t, tk)
    ELSE LET r == ProcessSongs(items[t].title, task[1].pool, js.data.song)
         IN IF r.found THEN AfterResolve(t, [tk EXCEPT !.pool = r.pool], r.id, "Exact title match found")
            ELSE NextStrategy(t, [tk EXCEPT !.pool = r.pool])

\* the body of the strategy loop once send_request has returned js
OnSearch(t, tk, js) ==
    IF js.raise THEN Raise(tk, "Exception")
    ELSE IF ~js.ok THEN NextStrategy(t, tk)
    ELSE IF ~js.data.hasSong THEN NextStrategy(t, tk)
    ELSE IF SearchKeyError(items[t].title, js.data.song) THEN Raise(tk, "KeyError")
    ELSE LET r == ProcessSongs(items[t].title, tk.pool, js.data.song)
         IN IF r.found THEN AfterResolve(t, [tk EXCEPT !.pool = r.pool], r.id, "Exact title match found")
            ELSE NextStrategy(t, [tk EXCEPT !.pool = r.pool])

\* get_album_id_by_name once send_request has returned js, then find_song_in_album's request
OnAlbumSearch(t, tk, js) ==
    IF js.raise THEN Raise(tk, "Exception")
    ELSE LET album_id == IF ~js.ok THEN None
                         ELSE IF ~js.data.hasAlbum THEN None
                         ELSE AlbumLoop(items[t].album, js.data.album)
         IN IF album_id # None THEN Send(tk, "getAlbum", GetAlbumReq(tk.payload, album_id))
            ELSE AfterResolve(t, tk, None, "Could not find match")

\* find_song_in_album once send_request has returned js
OnGetAlbum(t, tk, js) ==
    IF js.raise THEN Raise(tk, "Exception")
    ELSE IF js.ok /\ js.data.hasSong /\ AlbumKeyError(items[t].title, js.data.song) THEN Raise(tk, "KeyError")
    ELSE LET song_id == IF ~js.ok THEN None
                        ELSE IF ~js.data.hasSong THEN None
                        ELSE SongLoop(items[t].title, js.data.song)
         IN IF song_id # None THEN AfterResolve(t, tk, song_id, "Found song in album")
            ELSE AfterResolve(t, tk, None, "Could not find match")

OnPush_raise(t, tk, js) ==
    IF js.raise \/ ~js.ok THEN Raise(tk, "Exception")
    ELSE Return(tk, tk.id, IF op.name = "rate" THEN "Successfully updated rating" ELSE "Scrobbled")

\* the end of update_rating / scrobble once send_request has returned js
OnPush(t, tk, js) ==
    IF js.raise THEN Raise(tk, "Exception")
    ELSE IF js.ok THEN Return(tk, tk.id, IF op.name = "rate" THEN "Successfully updated rating" ELSE "Scrobbled")
    ELSE Return(tk, tk.id, IF op.name = "rate" THEN "Failed to update rating" ELSE "Error scrobbling")

BeginUnit_always(t) == BeginResolve(t, task[t])

\* the first steps of the unit of work of item t, up to its first request
BeginUnit(t) ==
    CASE op.name = "getids" -> BeginResolve(t, task[t])
      [] op.name = "rate" ->
            IF subsonic_id[t] \in {Absent, None} THEN BeginResolve(t, task[t])
            ELSE {RateContinue(t, task[t], subsonic_id[t])}
      [] op.name = "scrobble" ->
            IF subsonic_id[t] = Absent THEN BeginResolve(t, task[t])
            ELSE {ScrobbleContinue(t, task[t], subsonic_id[t])}

\* whether the unit of work of item t calls get_song_id (and so authenticate)
CallsResolve(t) ==
    CASE op.name = "getids" -> TRUE
      [] op.name = "rate" -> subsonic_id[t] \in {Absent, None}
      [] op.name = "scrobble" -> subsonic_id[t] = Absent

\* a unit of work whose result the batch loop has taken: its locals are gone
Collected(tk) == [IdleTask EXCEPT !.pc = tk.pc]

\* --------------------------------------------------------------- actions
CanBegin(cmd) == op.st # "running" /\ nops < session.maxops /\ cmd \in session.cmds

Reset ==
    /\ counter' = [t \in Tracks |-> 0]
    /\ stores' = [t \in Tracks |-> 0]
    /\ nops' = nops + 1

\* start_scan up to the getScanStatus request
ScanBegin ==
    /\ CanBegin("scan")
    /\ Reset
    /\ task' = [t \in Tracks |-> IdleTask]
    /\ authCalls' = 1
    /\ idx' = 0
    /\ IF authenticate(auth) = {}
       THEN /\ op' = [name |-> "scan", force |-> FALSE, rating_field |-> "", st |-> "returned"]
            /\ payload' = NoPayload
            /\ scan' = [IdleScan EXCEPT !.out = "Authentication failed"]
       ELSE /\ op' = [name |-> "scan", force |-> FALSE, rating_field |-> "", st |-> "running"]
            /\ payload' \in authenticate(auth)
            /\ scan' = [IdleScan EXCEPT !.pc = "getScanStatus", !.req = ScanReq("getScanStatus", payload'), !.nreq = 1]
    /\ UNCHANGED <<auth, items, subsonic_id, server, session>>

\* what the getScanStatus response said: the remote scans, is idle, or send_request returned None
ScanStatus(js) == IF ~js.ok THEN "failed" ELSE IF js.data.scanning THEN "scanning" ELSE "idle"

OnScanStatus_always(sc, js) ==
    IF js.raise THEN [sc EXCEPT !.pc = "raised", !.req = NoReq, !.status = "failed"]
    ELSE [sc EXCEPT !.pc = "startScan", !.req = ScanReq("startScan", payload), !.nreq = @ + 1, !.status = ScanStatus(js)]

\* start_scan once send_request has returned js for getScanStatus (lines 241-249)
OnScanStatus(sc, js) ==
    IF js.raise THEN [sc EXCEPT !.pc = "raised", !.req = NoReq, !.status = "failed"]
    ELSE IF js.ok /\ js.data.scanning
    THEN [sc EXCEPT !.pc = "done", !.req = NoReq, !.status = ScanStatus(js), !.out = "Subsonic is currently scanning"]
    ELSE [sc EXCEPT !.pc = "startScan", !.req = ScanReq("startScan", payload), !.nreq = @ + 1, !.status = ScanStatus(js)]

\* start_scan once send_request has returned js for startScan (lines 249-252)
OnStartScan(sc, js) ==
    IF js.raise THEN [sc EXCEPT !.pc = "raised", !.req = NoReq]
    ELSE [sc EXCEPT !.pc = "done", !.req = NoReq, !.out = IF js.ok THEN "Updating Subsonic" ELSE ""]

ScanSt(sc) == IF sc.pc = "raised" THEN "raised" ELSE IF sc.pc = "done" THEN "returned" ELSE "running"

\* the getScanStatus response arrives
ScanStatusResponse(raw) ==
    /\ op.name = "scan" /\ op.st = "running" /\ scan.pc = "getScanStatus"
    /\ scan' = OnScanStatus(scan, send_request(raw))
    /\ op' = [op EXCEPT !.st = ScanSt(scan')]
    /\ UNCHANGED <<auth, items, subsonic_id, server, session, payload, idx, task, counter, stores, nops, authCalls>>

\* the startScan response arrives
StartScanResponse(raw) ==
    /\ op.name = "scan" /\ op.st = "running" /\ scan.pc = "startScan"
    /\ scan' = OnStartScan(scan, send_request(raw))
    /\ op' = [op EXCEPT !.st = ScanSt(scan')]
    /\ UNCHANGED <<auth, items, subsonic_id, server, session, payload, idx, task, counter, stores, nops, authCalls>>

Skips_none(i) == ~op.force /\ subsonic_id[i] \notin {Absent, None}

\* `not force and hasattr(item, "subsonic_id")`
Skips(i) == ~op.force /\ subsonic_id[i] # Absent

\* subsonic_get_ids up to its loop
GetIdsBegin(force) ==
    /\ scan' = IdleScan
    /\ CanBegin("getids")
    /\ Reset
    /\ task' = [t \in Tracks |-> IdleTask]
    /\ op' = [name |-> "getids", force |-> force, rating_field |-> "", st |-> "running"]
    /\ payload' = NoPayload
    /\ authCalls' = 0
    /\ idx' = 1
    /\ UNCHANGED <<auth, items, subsonic_id, server, session>>

\* one pass of the loop of subsonic_get_ids up to executor.submit
GetIdsLoop ==
    /\ op.name = "getids" /\ op.st = "running"
    /\ idx <= N /\ task[idx].pc = "idle"
    /\ IF Skips(idx)
       THEN /\ counter' = [counter EXCEPT ![idx] = @ + 1]
            /\ idx' = idx + 1
            /\ op' = [op EXCEPT !.st = IF idx = N THEN "returned" ELSE "running"]
            /\ task' = task
       ELSE /\ task' = [task EXCEPT ![idx].pc = "queued"]
            /\ UNCHANGED <<counter, idx, op>>
    /\ UNCHANGED <<auth, items, subsonic_id, server, session, payload, stores, scan, nops, authCalls>>

GetIdsResult_keep ==
    /\ op.name = "getids" /\ op.st = "running"
    /\ idx <= N /\ Finished(idx)
    /\ IF task[idx].pc = "raised"
       THEN /\ op' = [op EXCEPT !.st = "raised"]
            /\ UNCHANGED <<subsonic_id, stores, counter, idx>>
       ELSE /\ subsonic_id' = [subsonic_id EXCEPT ![idx] = IF task[idx].id = None /\ @ # Absent THEN @ ELSE task[idx].id]
            /\ stores' = [stores EXCEPT ![idx] = IF task[idx].id = None THEN @ ELSE @ + 1]
            /\ counter' = [counter EXCEPT ![idx] = @ + 1]
            /\ idx' = idx + 1
            /\ op' = [op EXCEPT !.st = IF idx = N THEN "returned" ELSE "running"]
    /\ task' = [task EXCEPT ![idx] = Collected(@)]
    /\ UNCHANGED <<auth, items, server, session, payload, scan, nops, authCalls>>

\* future.result() of subsonic_get_ids, the assignment, store and counter.update
GetIdsResult ==
    /\ op.name = "getids" /\ op.st = "running"
    /\ idx <= N /\ Finished(idx)
    /\ IF task[idx].pc = "raised"
       THEN /\ op' = [op EXCEPT !.st = "raised"]
            /\ UNCHANGED <<subsonic_id, stores, counter, idx>>
       ELSE /\ subsonic_id' = [subsonic_id EXCEPT ![idx] = task[idx].id]
            /\ stores' = [stores EXCEPT ![idx] = @ + 1]
            /\ counter' = [counter EXCEPT ![idx] = @ + 1]
            /\ idx' = idx + 1
            /\ op' = [op EXCEPT !.st = IF idx = N THEN "returned" ELSE "running"]
    /\ task' = [task EXCEPT ![idx] = Collected(@)]
    /\ UNCHANGED <<auth, items, server, session, payload, scan, nops, authCalls>>

PoolFree_unbounded == Cardinality(InFlight) <= MAX_WORKERS

\* the number of units of work the executor runs at once
PoolFree == Cardinality(InFlight) < MAX_WORKERS

\* a worker thread of the ThreadPoolExecutor takes the oldest submitted unit
WorkerStart(t) ==
    /\ op.name \in {"getids", "rate"} /\ op.st = "running"
    /\ task[t].pc = "queued"
    /\ \A u \in Tracks : task[u].pc = "queued" => t <= u
    /\ PoolFree
    /\ \E tk \in BeginUnit(t) : task' = [task EXCEPT ![t] = tk]
    /\ authCalls' = IF CallsResolve(t) THEN authCalls + 1 ELSE authCalls
    /\ UNCHANGED <<auth, items, subsonic_id, server, session, op, payload, idx, counter, stores, scan, nops>>

\* the response to a search3 song search of item t arrives
SearchResponse(t, raw) ==
    /\ op.st = "running" /\ task[t].pc = "search"
    /\ Len(task[t].pool) + Len(raw.data.song) <= MaxPool
    /\ LET js == send_request(raw)
       IN task' = [task EXCEPT ![t] = OnSearch(t, Heard(task[t], js), js)]
    /\ UNCHANGED <<auth, items, subsonic_id, server, session, op, payload, idx, counter, stores, scan, nops, authCalls>>

\* the response to the search3 album search of item t arrives
AlbumSearchResponse(t, raw) ==
    /\ op.st = "running" /\ task[t].pc = "albumSearch"
    /\ LET js == send_request(raw)
       IN task' = [task EXCEPT ![t] = OnAlbumSearch(t, Heard(task[t], js), js)]
    /\ UNCHANGED <<auth, items, subsonic_id, server, session, op, payload, idx, counter, stores, scan, nops, authCalls>>

\* the response to getAlbum of item t arrives
GetAlbumResponse(t, raw) ==
    /\ op.st = "running" /\ task[t].pc = "getAlbum"
    /\ LET js == send_request(raw)
       IN task' = [task EXCEPT ![t] = OnGetAlbum(t, Heard(task[t], js), js)]
    /\ UNCHANGED <<auth, items, subsonic_id, server, session, op, payload, idx, counter, stores, scan, nops, authCalls>>

\* the response to setRating or scrobble of item t arrives
PushResponse(t, raw) ==
    /\ op.st = "running" /\ task[t].pc = "push"
    /\ LET js == send_request(raw)
       IN task' = [task EXCEPT ![t] = OnPush(t, Heard(task[t], js), js)]
    /\ UNCHANGED <<auth, items, subsonic_id, server, session, op, payload, idx, counter, stores, scan, nops, authCalls>>

\* subsonic_add_rating up to the end of its submit loop
RateBegin(rating_field) ==
    /\ scan' = IdleScan
    /\ CanBegin("rate")
    /\ Reset
    /\ authCalls' = 1
    /\ idx' = 0
    /\ IF authenticate(auth) = {}
       THEN /\ op' = [name |-> "rate", force |-> FALSE, rating_field |-> rating_field, st |-> "raised"]
            /\ payload' = NoPayload
            /\ task' = [t \in Tracks |-> IdleTask]
       ELSE /\ op' = [name |-> "rate", force |-> FALSE, rating_field |-> rating_field, st |-> "running"]
            /\ payload' \in authenticate(auth)
            /\ task' = [t \in Tracks |-> [IdleTask EXCEPT !.pc = "queued"]]
    /\ UNCHANGED <<auth, items, subsonic_id, server, session>>

\* as_completed yields the future of item t: counter.update
RateObserve(t) ==
    /\ op.name = "rate" /\ op.st = "running"
    /\ Finished(t) /\ counter[t] = 0
    /\ counter' = [counter EXCEPT ![t] = @ + 1]
    /\ op' = [op EXCEPT !.st = IF \A u \in Tracks \ {t} : counter[u] > 0 THEN "returned" ELSE "running"]
    /\ task' = [task EXCEPT ![t] = Collected(@)]
    /\ UNCHANGED <<auth, items, subsonic_id, server, session, payload, idx, stores, scan, nops, authCalls>>

\* subsonic_scrobble up to its loop
ScrobbleBegin ==
    /\ scan' = IdleScan
    /\ CanBegin("scrobble")
    /\ Reset
    /\ task' = [t \in Tracks |-> IdleTask]
    /\ authCalls' = 1
    /\ IF authenticate(auth) = {}
       THEN /\ op' = [name |-> "scrobble", force |-> FALSE, rating_field |-> "", st |-> "raised"]
            /\ payload' = NoPayload
            /\ idx' = 0
       ELSE /\ op' = [name |-> "scrobble", force |-> FALSE, rating_field |-> "", st |-> "running"]
            /\ payload' \in authenticate(auth)
            /\ idx' = 1
    /\ UNCHANGED <<auth, items, subsonic_id, server, session>>

\* one pass of the loop of subsonic_scrobble: scrobble(item) up to its first request
ScrobbleItem ==
    /\ op.name = "scrobble" /\ op.st = "running"
    /\ idx <= N /\ task[idx].pc = "idle"
    /\ \E tk \in BeginUnit(idx) : task' = [task EXCEPT ![idx] = tk]
    /\ authCalls' = IF CallsResolve(idx) THEN authCalls + 1 ELSE authCalls
    /\ UNCHANGED <<auth, items, subsonic_id, server, session, op, payload, idx, counter, stores, scan, nops>>

\* scrobble(item) has returned to the loop of subsonic_scrobble: counter.update
ScrobbleResult ==
    /\ op.name = "scrobble" /\ op.st = "running"
    /\ idx <= N /\ Finished(idx)
    /\ IF task[idx].pc = "raised"
       THEN /\ op' = [op EXCEPT !.st = "raised"]
            /\ UNCHANGED <<counter, idx>>
       ELSE /\ counter' = [counter EXCEPT ![idx] = @ + 1]
            /\ idx' = idx + 1
            /\ op' = [op EXCEPT !.st = IF idx = N THEN "returned" ELSE "running"]
    /\ task' = [task EXCEPT ![idx] = Collected(@)]
    /\ UNCHANGED <<auth, items, subsonic_id, server, session, payload, stores, scan, nops, authCalls>>

Next ==
    \/ ScanBegin
    \/ \E raw \in ScanResponses : ScanStatusResponse(raw)
    \/ \E raw \in ScanResponses : StartScanResponse(raw)
    \/ \E force \in BOOLEAN : GetIdsBegin(force)
    \/ GetIdsLoop
    \/ GetIdsResult
    \/ \E t \in Tracks : WorkerStart(t)
    \/ \E t \in Tracks : \E raw \in SearchResponses : SearchResponse(t, raw)
    \/ \E t \in Tracks : \E raw \in AlbumSearchResponses : AlbumSearchResponse(t, raw)
    \/ \E t \in Tracks : \E raw \in GetAlbumResponses : GetAlbumResponse(t, raw)
    \/ \E t \in Tracks : \E raw \in PushResponses : PushResponse(t, raw)
    \/ \E rating_field \in session.fields : RateBegin(rating_field)
    \/ \E t \in Tracks : RateObserve(t)
    \/ ScrobbleBegin
    \/ ScrobbleItem
    \/ ScrobbleResult

Spec == Init /\ [][Next]_vars

\* every step but the start of a command: a worker thread or the main thread
\* runs on, or a request returns (at the latest when its 5 s timeout fires)
Progress == Next /\ nops' = nops

\* one command from start to end under fair scheduling
FairInit == Init /\ session.maxops = 1
FairSpec == FairInit /\ [][Next]_vars /\ WF_vars(Progress)

\* ------------------------------------------------------ malformed records
\* one command over two unresolved tracks against a remote that also returns
\* a song record without title
FaultInit ==
    /\ items = PairTracks
    /\ server = FaultServer
    /\ subsonic_id = [t \in 1..2 |-> Absent]
    /\ session = [cmds |-> Commands, fields |-> {"plex_userrating"}, maxops |-> 1]
    /\ auth = "password"
    /\ op = NoOp
    /\ payload = NoPayload
    /\ idx = 0
    /\ task = [t \in Tracks |-> IdleTask]
    /\ counter = [t \in Tracks |-> 0]
    /\ stores = [t \in Tracks |-> 0]
    /\ scan = IdleScan
    /\ nops = 0
    /\ authCalls = 0

FaultSpec == FaultInit /\ [][Next]_vars

\* ------------------------------------------------- the rating translation
\* pushRatings over one resolved track that carries one rating field, for
\* every value of the half scale, of the popularity scale and of a generic field
RatingAttrs ==
    {("plex_userrating" :> v) : v \in 0..MaxHalfScale}
    \cup {("spotify_track_popularity" :> v) : v \in 0..MaxPopularity}
    \cup {("my_rating" :> v) : v \in 0..MaxGeneric}

RatingInit ==
    /\ items \in {<<Item(<<"a">>, <<"x">>, <<"h">>, a)>> : a \in RatingAttrs}
    /\ server = PoorServer
    /\ subsonic_id = <<"s1">>
    /\ session = [cmds |-> {"rate"}, fields |-> RatingFields, maxops |-> 1]
    /\ auth = "password"
    /\ op = NoOp
    /\ payload = NoPayload
    /\ idx = 0
    /\ task = [t \in Tracks |-> IdleTask]
    /\ counter = [t \in Tracks |-> 0]
    /\ stores = [t \in Tracks |-> 0]
    /\ scan = IdleScan
    /\ nops = 0
    /\ authCalls = 0

RatingNext ==
    \/ \E rating_field \in session.fields : RateBegin(rating_field)
    \/ \E t \in Tracks : WorkerStart(t)
    \/ \E t \in Tracks : \E raw \in PushResponses : PushResponse(t, raw)
    \/ \E t \in Tracks : RateObserve(t)

RatingSpec == RatingInit /\ [][RatingNext]_vars

\* ------------------------------------------------------------ properties
\* case-insensitive equality and containment of titles, stated on characters
SameIgnoringCase(a, b) == Len(a) = Len(b) /\ \A i \in 1..Len(a) : LowerChar(a[i]) = LowerChar(b[i])
OccursIn(a, b) == \E i \in 1..(Len(b) - Len(a) + 1) : \A j \in 1..Len(a) : b[i + j - 1] = a[j]
Trimmed(a) == LET I == {i \in 1..Len(a) : a[i] # " "}
              IN IF I = {} THEN <<>>
                 ELSE SubSeq(a, CHOOSE i \in I : \A j \in I : i <= j, CHOOSE i \in I : \A j \in I : i >= j)
Norm(a) == Trimmed([i \in 1..Len(a) |-> LowerChar(a[i])])
Lenient(a, b) == OccursIn(Norm(a), Norm(b)) \/ OccursIn(Norm(b), Norm(a))
Low(a) == [i \in 1..Len(a) |-> LowerChar(a[i])]

\* the indices of the exact and of the lenient matches of a title in a list of songs
ExactAt(title, l) == {i \in 1..Len(l) : SameIgnoringCase(title, l[i].title)}
LenientAt(title, l) == {i \in 1..Len(l) : Lenient(title, l[i].title)}
Least(I) == CHOOSE i \in I : \A j \in I : i <= j

Resolving(t) == task[t].pc \in {"search", "albumSearch", "getAlbum"}
MatcherEndpoints == {"search3", "getAlbum"}
SameRun == nops' = nops
\* the unit of work of item t, waiting at pc, takes a step
Steps(t, pc) == task[t].pc = pc /\ task'[t] # task[t]
OkSongs(raw) == raw.http = 200 /\ raw.json /\ raw.envelope /\ raw.status = "ok" /\ raw.data.hasSong

\* C1: when the result list of strategy k holds an exact (case-insensitive)
\* title match, resolve returns the id of the first such song of the list and
\* sends no further search, album-search or getAlbum request: the unit of work
\* leaves the matcher with exactly the k requests sent so far, and a unit that
\* has left the matcher never sends a matcher request again.
C1_ExactShortCircuit ==
    [][\A t \in Tracks :
        /\ Steps(t, "search") => \A raw \in SearchResponses :
              (OkSongs(raw) /\ ExactAt(items[t].title, raw.data.song) # {} /\ SearchResponse(t, raw))
              => /\ task'[t].id = raw.data.song[Least(ExactAt(items[t].title, raw.data.song))].id
                 /\ ~Resolving(t)'
                 /\ task'[t].k = task[t].k
                 /\ task'[t].req.endpoint \notin MatcherEndpoints
                 /\ op.name = "getids" => (task'[t].pc = "done" /\ task'[t].nreq = task[t].k)
        /\ (SameRun /\ task[t].pc \in {"push", "done"}) => task'[t].req.endpoint \notin MatcherEndpoints
    ]_vars

\* C1 witness: an exact match found by strategy 3 after earlier strategies returned other songs
C1_Witness ==
    \E t \in Tracks : /\ task[t].pc = "done" /\ task[t].out = "Exact title match found"
                      /\ task[t].k = 3 /\ Len(task[t].pool) = 3 /\ task[t].nreq = 3
                      /\ task[t].id = "s4" /\ server = ExactServer

AlbumAt(name, l) == {i \in 1..Len(l) : OccursIn(Low(name), Low(l[i].name))}
\* the songs of a list whose title contains the title, ignoring case
SongAt(title, l) == {i \in 1..Len(l) : OccursIn(Low(title), Low(l[i].title))}
OkAlbums(raw) == raw.http = 200 /\ raw.json /\ raw.envelope /\ raw.status = "ok" /\ raw.data.hasAlbum
NoMatch(t) == /\ ~Resolving(t)' /\ task'[t].id = None
              /\ task'[t].req.endpoint \notin MatcherEndpoints
              /\ task'[t].nreq = task[t].nreq \/ task'[t].req.endpoint = "scrobble"

C4_ErrorsContinue ==
    [][\A t \in Tracks : Steps(t, "search") => \A kind \in ErrKinds :
        SearchResponse(t, RawErr(kind))
        => /\ task'[t].pool = task[t].pool
           /\ task'[t].pc # "raised"
           /\ task[t].k < NumStrategies
              => /\ task'[t].pc = "search" /\ task'[t].k = task[t].k + 1
                 /\ task'[t].req = SearchReq(task[t].payload, search_strategies(items[t], task[t].k + 1))
           /\ task[t].k = NumStrategies
              => IF LenientAt(items[t].title, task[t].pool) # {}
                 THEN task'[t].id = task[t].pool[Least(LenientAt(items[t].title, task[t].pool))].id
                 ELSE task'[t].pc = "albumSearch"
    ]_vars

\* C4 witness: strategy 3 in flight with the pool kept, right after strategy 2 failed
C4_Witness ==
    \E t \in Tracks : /\ task[t].pc = "search" /\ task[t].k = 3 /\ task[t].failed
                      /\ task[t].pool # <<>> /\ task[t].nreq = 3

ValidAuth == auth \in {"token", "password"}
Batch == op.name \in {"getids", "rate", "scrobble"}
OkRaw(raw) == raw.http = 200 /\ raw.json /\ raw.envelope /\ raw.status = "ok"

\* C5: under a valid auth mode, whatever transport errors the requests of any
\* items meet, no batch operation and no unit of work ends in an exception, a
\* batch returns only with every item counted once, a setRating or scrobble
\* request that succeeds gives its item the success outcome, one that fails
\* gives it the logged failure, and neither touches another item's unit.
C5_ErrorIsolation ==
    /\ [](ValidAuth /\ Batch =>
            /\ op.st # "raised"
            /\ \A t \in Tracks : task[t].pc # "raised" /\ counter[t] <= 1
            /\ op.st = "returned" => \A t \in Tracks : counter[t] = 1)
    /\ [][ValidAuth => \A t \in Tracks : Steps(t, "push") => \A raw \in PushResponses :
            PushResponse(t, raw)
            => /\ task'[t].pc = "done" /\ task'[t].id = task[t].id
               /\ task'[t].out = IF op.name = "rate"
                                 THEN (IF OkRaw(raw) THEN "Successfully updated rating" ELSE "Failed to update rating")
                                 ELSE (IF OkRaw(raw) THEN "Scrobbled" ELSE "Error scrobbling")
               /\ \A u \in Tracks \ {t} : task'[u] = task[u]
       ]_vars

\* C5 witness: in one rating batch an earlier item's setRating failed and a later item's succeeded
C5_Witness ==
    /\ op.name = "rate" /\ ValidAuth
    /\ \E t, u \in Tracks : /\ t < u
                             /\ task[t].pc = "done" /\ task[t].failed /\ task[t].out = "Failed to update rating"
                             /\ task[u].pc = "done" /\ task[u].out = "Successfully updated rating"

\* C6: at most MAX_WORKERS units of work have a request in flight, no item is
\* counted twice, and, credentials being constructible, under fair scheduling
\* a running batch reaches completion with every item counted exactly once.
C6_BoundedPool ==
    /\ [](Cardinality(InFlight) <= MAX_WORKERS /\ \A t \in Tracks : counter[t] <= 1)
    /\ (ValidAuth /\ Batch /\ op.st = "running") ~> (op.st = "returned" /\ \A t \in Tracks : counter[t] = 1)

\* C6 witness: MAX_WORKERS requests in flight while a further unit waits in the queue
C6_Witness ==
    /\ Cardinality(InFlight) = MAX_WORKERS
    /\ \E t \in Tracks : task[t].pc = "queued"

\* C7: in resolveIds with force = false a track that carries a remoteId
\* (none included) gets no unit of work, no request, no store and no write; a
\* completed resolveIds leaves every track with a remoteId, a remoteId is
\* never removed, and so a later resolveIds(force = false) over tracks that
\* all carry one calls nothing: no authenticate, no request, no store.
C7_SkipResolved ==
    /\ [](op.name = "getids" =>
            /\ ~op.force => \A t \in Tracks : (subsonic_id[t] # Absent /\ stores[t] = 0) => task[t] = IdleTask
            /\ (~op.force /\ \A t \in Tracks : subsonic_id[t] # Absent /\ stores[t] = 0) => authCalls = 0
            /\ op.st = "returned" => \A t \in Tracks : subsonic_id[t] # Absent)
    /\ [][\A t \in Tracks :
            /\ subsonic_id[t] # Absent => subsonic_id'[t] # Absent
            /\ (SameRun /\ op.name = "getids" /\ ~op.force /\ subsonic_id[t] # Absent /\ stores[t] = 0)
               => (stores'[t] = 0 /\ subsonic_id'[t] = subsonic_id[t])
       ]_vars

\* C7 witness: a second command, resolveIds(force = false), has returned
\* without a unit of work, one of the tracks carrying the remoteId none
C7_Witness ==
    /\ nops = 2 /\ op.name = "getids" /\ ~op.force /\ op.st = "returned"
    /\ \E t \in Tracks : subsonic_id[t] = None
    /\ \A t \in Tracks : task[t] = IdleTask /\ stores[t] = 0 /\ counter[t] = 1

\* C8 as stated: a running batch has built exactly one Credential and every
\* request in flight carries it.
C8_Original ==
    (Batch /\ op.st = "running") => (authCalls = 1 /\ \A t \in InFlight : task[t].req.cred = payload)

\* C8 (amended): pushRatings and pushScrobbles build one Credential before any
\* per-item work and every setRating and scrobble request carries it;
\* resolveIds builds none up front; every call of the Matcher for an item
\* builds a Credential of its own, carried by that call's search, album-search
\* and getAlbum requests.
C8_CredentialPerCall ==
    /\ [](op.name = "getids" => payload = NoPayload)
    /\ [](\A t \in Tracks :
            /\ task[t].pc = "push" => (task[t].req.cred = payload /\ payload \in authenticate(auth))
            /\ Resolving(t) => (task[t].req.cred = task[t].payload /\ task[t].payload \in authenticate(auth)))
    /\ [][/\ ~SameRun => authCalls' = IF op'.name = "getids" THEN 0 ELSE 1
          /\ SameRun => authCalls' = authCalls + Cardinality({t \in Tracks :
                            task[t].pc \in {"idle", "queued"} /\ task'[t].pc \in {"search", "raised"}})
       ]_vars

\* C8 witness: a setRating request carrying the batch's Credential for an item
\* whose Matcher call had built another one
C8_Witness ==
    /\ op.name = "rate" /\ authCalls = 2
    /\ \E t \in Tracks : /\ task[t].pc = "push" /\ task[t].req.cred = payload
                          /\ task[t].payload \notin {payload, NoPayload}

\* no request sent, no store made by the running command
NoTraffic ==
    /\ scan.nreq = 0 /\ scan.req = NoReq
    /\ \A t \in Tracks : task[t].nreq = 0 /\ task[t].req = NoReq /\ stores[t] = 0
Unskipped == {t \in Tracks : ~Skips(t)}

\* C9 as stated: under an invalid auth mode every operation fails (triggerScan
\* by its logged authentication failure) before any item is processed, with
\* no request and no store.
C9_Original ==
    ~ValidAuth => /\ NoTraffic
                  /\ \A t \in Tracks : counter[t] = 0
                  /\ (op.name # "none" /\ op.st # "running")
                     => (op.st = "raised" \/ scan.out = "Authentication failed")

\* C9 (amended): under an invalid auth mode no operation sends a request,
\* writes a track field or makes a store call; triggerScan logs the
\* authentication failure and returns; pushRatings and pushScrobbles fail
\* before any item is processed; resolveIds fails at the first track it does
\* not skip, after counting the skipped tracks before it, and returns
\* normally when it skips every track.
C9_InvalidMode ==
    /\ [](~ValidAuth =>
            /\ NoTraffic /\ payload = NoPayload
            /\ op.name = "scan" => (op.st = "returned" /\ scan.out = "Authentication failed")
            /\ op.name \in {"rate", "scrobble"}
               => (op.st = "raised" /\ \A t \in Tracks : counter[t] = 0 /\ task[t] = IdleTask)
            /\ (op.name = "getids" /\ op.st = "returned") => \A t \in Tracks : Skips(t) /\ counter[t] = 1
            /\ (op.name = "getids" /\ op.st = "raised")
               => /\ Unskipped # {}
                  /\ task[Least(Unskipped)].pc = "raised"
                  /\ \A t \in Tracks : counter[t] = IF t < Least(Unskipped) THEN 1 ELSE 0)
    /\ [][~ValidAuth => subsonic_id' = subsonic_id]_vars

\* C9 witness: resolveIds under an invalid auth mode failed at the second
\* track after counting the first, which it skipped
C9_Witness ==
    /\ ~ValidAuth /\ op.name = "getids" /\ op.st = "raised"
    /\ counter[1] = 1 /\ task[2].pc = "raised"

\* C10: a startScan request is the second request of triggerScan, sent from
\* the handling of the getScanStatus response and only when that response did
\* not report a running scan; a response that reports one ends triggerScan
\* with that single request sent.
C10_ScanGuard ==
    /\ [](scan.req.endpoint = "startScan"
            => (scan.pc = "startScan" /\ scan.nreq = 2 /\ scan.status \in {"idle", "failed"}))
    /\ [](scan.status = "scanning"
            => (scan.nreq = 1 /\ scan.pc = "done" /\ scan.req = NoReq /\ op.st = "returned"))
    /\ [][/\ (scan'.req.endpoint = "startScan" /\ scan.req.endpoint # "startScan")
             => (scan.req.endpoint = "getScanStatus" /\ scan.nreq = 1)
          /\ scan.pc = "getScanStatus" => \A raw \in ScanResponses :
                (OkRaw(raw) /\ raw.data.scanning /\ ScanStatusResponse(raw))
                => (scan'.status = "scanning" /\ scan'.req = NoReq /\ scan'.nreq = 1)
       ]_vars

\* C10 witness: a second command, triggerScan, returned after one request
\* because the remote reported a running scan
C10_Witness ==
    /\ nops = 2 /\ op.name = "scan" /\ op.st = "returned"
    /\ scan.status = "scanning" /\ scan.nreq = 1 /\ scan.out = "Subsonic is currently scanning"

\* C11: when resolveIds counts a track it did not skip, the track's remoteId
\* becomes exactly the id its Matcher call returned (none included) and store
\* is invoked for it, once in the whole run; the stored value then stays for
\* the rest of the run; a skipped track is never stored.
C11_StoreOnce ==
    /\ [](op.name = "getids" => \A t \in Tracks :
            stores[t] = IF task[t].pc = "done" /\ counter[t] = 1 THEN 1 ELSE 0)
    /\ [][(SameRun /\ op.name = "getids") => \A t \in Tracks :
            /\ (task[t].pc = "done" /\ counter'[t] # counter[t])
               => /\ subsonic_id'[t] = task[t].id
                  /\ stores[t] = 0 /\ stores'[t] = 1
                  /\ counter[t] = 0 /\ counter'[t] = 1
            /\ stores[t] = 1 => (subsonic_id'[t] = subsonic_id[t] /\ stores'[t] = 1)
       ]_vars

\* C11 witness: resolveIds(force = true) replaced the stored id of the second
\* track of the pool scenario, which every run starts with, by none
C11_Witness ==
    /\ items = PoolTracks /\ op.name = "getids" /\ op.force
    /\ subsonic_id[2] = None /\ stores[2] = 1 /\ counter[2] = 1

\* the popularity thresholds in hundredths, and the examples the translation is stated by
Thresholds == {1666, 3333, 5000, 6666, 8333}
HalfExamples == (1 :> 0) @@ (3 :> 2) @@ (5 :> 2) @@ (7 :> 4) @@ (9 :> 4) @@ (10 :> 5)
Sent(t) == task[t].req.rating
Stored(t) == getattr(items[t], op.rating_field)
Pushing(t) == op.name = "rate" /\ task[t].pc = "push"

\* C12: the rating of every setRating request is, for plex_userrating, a
\* nearest integer of v / 2 and the even one when v / 2 lies halfway (10 -> 5;
\* 1, 3, 5, 7, 9 -> 0, 2, 2, 4, 4), and for spotify_track_popularity the number
\* of thresholds 16.66, 33.33, 50, 66.66, 83.33 that are at most p (20 -> 1,
\* 50 -> 3).
C12_Translation ==
    \A t \in Tracks : Pushing(t) =>
        /\ op.rating_field = "plex_userrating"
           => /\ 2 * Sent(t) - Stored(t) \in {-1, 0, 1}
              /\ 2 * Sent(t) # Stored(t) => Sent(t) % 2 = 0
              /\ Stored(t) \in DOMAIN HalfExamples => Sent(t) = HalfExamples[Stored(t)]
        /\ op.rating_field = "spotify_track_popularity"
           => /\ Sent(t) = Cardinality({th \in Thresholds : th <= Stored(t) * 100})
              /\ Stored(t) = 20 => Sent(t) = 1
              /\ Stored(t) = 50 => Sent(t) = 3

\* C12 witness: the half-scale rating 5 sent as 2, the even neighbour of 2.5
C12_Witness ==
    \E t \in Tracks : /\ Pushing(t) /\ op.rating_field = "plex_userrating"
                      /\ Stored(t) = 5 /\ Sent(t) = 2

\* C13: every rating sent in a setRating request is an integer in 0..5.
C13_RatingRange ==
    \A t \in Tracks : Pushing(t) => Sent(t) \in 0..5

\* item u is still to be worked on and its unit of work will send a request
WouldSend(u) ==
    /\ task[u].pc \in {"idle", "queued"} /\ counter[u] = 0
    /\ op.name = "getids" => ~Skips(u)
    /\ \E tk \in BeginUnit(u) : tk.pc \in InFlightPcs
\* a step that starts the unit of work of some item
StartAnother == Next /\ \E u \in Tracks : task[u].pc \in {"idle", "queued"} /\ task'[u].pc \notin {"idle", "queued"}

\* C14: in each batch operation the per-item work is spread over the pool:
\* while a unit of work waits for its response, fewer than MAX_WORKERS units
\* are in flight and another item still needs remote work, the batch can
\* start a further unit without waiting for the response, so that two units
\* in flight at the same time are reachable.
C14_Parallel ==
    (/\ ValidAuth /\ Batch /\ op.st = "running"
     /\ InFlight # {} /\ Cardinality(InFlight) < MAX_WORKERS
     /\ \E u \in Tracks : WouldSend(u))
    => ENABLED StartAnother

Pushes == {"rate", "scrobble"}

\* C15: a remoteId that is set changes only in a step of resolveIds with
\* force = true; pushRatings and pushScrobbles assign no remoteId and make no
\* store call, also when they resolve an id on the fly; for a track whose
\* remoteId is set and not none they never enter the Matcher and the single
\* request they send carries exactly that id.
C15_Authoritative ==
    /\ [][\A t \in Tracks :
            /\ (subsonic_id[t] # Absent /\ subsonic_id'[t] # subsonic_id[t])
               => (op.name = "getids" /\ op.force /\ SameRun)
            /\ op'.name \in Pushes => (subsonic_id'[t] = subsonic_id[t] /\ stores'[t] = 0)
       ]_vars
    /\ [](op.name \in Pushes => \A t \in Tracks :
            subsonic_id[t] \notin {Absent, None}
            => /\ ~Resolving(t) /\ task[t].k = 0 /\ task[t].nreq <= 1
               /\ task[t].req.endpoint \notin MatcherEndpoints
               /\ task[t].pc = "push" => task[t].req.id = subsonic_id[t])

\* C15 witness: in a second command, pushRatings, the first track's stored id
\* is sent as it is while the id resolved for the second track is sent
\* without being assigned to the track
C15_Witness ==
    /\ nops = 2 /\ op.name = "rate" /\ N = 2
    /\ task[1].pc = "push" /\ task[1].nreq = 1 /\ task[1].req.id = subsonic_id[1]
    /\ task[2].pc = "push" /\ task[2].req.id = "s3" /\ subsonic_id[2] = Absent

\* C16: a failure inside one item's unit of work, an exception included,
\* stays with that item: no batch operation ends in the exception, and a batch
\* ends only with every item counted.
C16_Confined ==
    (ValidAuth /\ Batch) => /\ op.st # "raised"
                            /\ op.st = "returned" => \A t \in Tracks : counter[t] = 1

\* C17: when the getScanStatus request of triggerScan fails in transport,
\* triggerScan has sent that one request only and sends no startScan request.
C17_AbortOnFailure ==
    (op.name = "scan" /\ scan.status = "failed")
    => (scan.nreq = 1 /\ scan.req.endpoint # "startScan" /\ scan.pc # "startScan")

\* the five queries of a track in their order, stated on characters
FirstArtist(a) == LET C == {i \in 1..Len(a) : a[i] = ","}
                  IN IF C = {} THEN a ELSE SubSeq(a, 1, Least(C) - 1)
Queries(item) ==
    << Trimmed(item.title),
       <<"\"">> \o Trimmed(item.title) \o <<"\"">>,
       Trimmed(item.title) \o <<" ">> \o Trimmed(item.album),
       Trimmed(FirstArtist(item.artist)) \o <<" ">> \o Trimmed(item.title),
       Trimmed(item.album) >>

\* C18: the n-th request of a resolve is the n-th of the five queries (title,
\* quoted title, title and album, first artist and title, album), a search
\* is followed by the next query or ends the cascade, the album search is the
\* sixth request and follows the fifth query only, getAlbum is the seventh
\* and follows the album search only; so a resolve sends at most 7 requests,
\* none twice, and under fair scheduling no resolve runs for ever: whenever
\* a resolve is running, a later state has none running.
C18_NoRetry ==
    /\ [](\A t \in Tracks :
            /\ task[t].pc = "search"
               => /\ task[t].k \in 1..NumStrategies /\ task[t].nreq = task[t].k
                  /\ task[t].req.endpoint = "search3" /\ task[t].req.count = <<"songCount", SONG_COUNT>>
                  /\ task[t].req.query = Queries(items[t])[task[t].k]
            /\ task[t].pc = "albumSearch"
               => /\ task[t].k = NumStrategies /\ task[t].nreq = NumStrategies + 1
                  /\ task[t].req.endpoint = "search3" /\ task[t].req.count = <<"albumCount", ALBUM_COUNT>>
            /\ task[t].pc = "getAlbum"
               => /\ task[t].k = NumStrategies /\ task[t].nreq = NumStrategies + 2
                  /\ task[t].req.endpoint = "getAlbum"
            /\ task[t].req.endpoint \in MatcherEndpoints => Resolving(t))
    /\ [][SameRun => \A t \in Tracks :
            /\ (task[t].pc = "search" /\ task'[t].pc = "search" /\ task'[t] # task[t])
               => task'[t].k = task[t].k + 1
            /\ (task'[t].pc = "search" /\ task[t].pc # "search")
               => (task[t].pc \in {"idle", "queued"} /\ task'[t].k = 1)
            /\ (task'[t].pc = "albumSearch" /\ task'[t] # task[t])
               => (task[t].pc = "search" /\ task[t].k = NumStrategies)
            /\ (task'[t].pc = "getAlbum" /\ task'[t] # task[t]) => task[t].pc = "albumSearch"
       ]_vars
    /\ (\E t \in Tracks : Resolving(t)) ~> (\A t \in Tracks : ~Resolving(t))

\* C18 witness: the seventh request of a resolve in flight, after five
\* searches that added no song and an album search that succeeded
C18_Witness ==
    \E t \in Tracks : /\ task[t].pc = "getAlbum" /\ task[t].nreq = NumStrategies + 2
                      /\ task[t].pool = <<>> /\ ~task[t].failed

RatingOutcomes == {"Successfully updated rating", "Failed to update rating"}
HasField(t) == op.rating_field \in DOMAIN items[t].attrs

\* C19: in pushRatings a setRating request is in flight only for an item that
\* carries the rating field and has an id, the stored one when it is set and
\* not none, and the request carries that id and the translated rating; it is
\* sent once, as the last request of the unit; a finished unit sent it exactly
\* when it had an id and the field; and under valid auth the batch never fails.
C19_SetRating ==
    /\ [](op.name = "rate" => \A t \in Tracks :
            /\ task[t].pc = "push"
               => /\ HasField(t) /\ task[t].id # None
                  /\ subsonic_id[t] \notin {Absent, None} => task[t].id = subsonic_id[t]
                  /\ task[t].req = SetRatingReq(payload, task[t].id,
                                       transform_rating(items[t].attrs[op.rating_field], op.rating_field))
            /\ (task[t].pc = "done" /\ counter[t] = 0)
               => /\ task[t].req = NoReq
                  /\ task[t].out \in RatingOutcomes <=> (HasField(t) /\ task[t].id # None)
                  /\ task[t].id = None => task[t].out = "Could not find song ID"
                  /\ (task[t].id # None /\ ~HasField(t)) => task[t].out = "No rating field"
            /\ ValidAuth => (op.st # "raised" /\ task[t].pc # "raised"))
    /\ [][(SameRun /\ op.name = "rate") => \A t \in Tracks :
            /\ (task'[t].pc = "push" /\ task'[t] # task[t])
               => (task[t].pc # "push" /\ task'[t].nreq = task[t].nreq + 1)
            /\ (task[t].pc = "push" /\ task'[t] # task[t])
               => (task'[t].pc = "done" /\ task'[t].out \in RatingOutcomes /\ task'[t].nreq = task[t].nreq)
            /\ (task[t].pc = "done" /\ task'[t] # task[t]) => task'[t] = Collected(task[t])
            /\ (task'[t].pc = "done" /\ task[t].pc \notin {"push", "done"})
               => task'[t].out \notin RatingOutcomes
       ]_vars

\* C19 witness: one rating batch with an item whose id could not be resolved,
\* an item without the rating field and an item whose setRating is in flight
C19_Witness ==
    /\ op.name = "rate"
    /\ \E t, u, v \in Tracks : /\ task[t].pc = "done" /\ task[t].out = "Could not find song ID"
                                /\ task[u].pc = "done" /\ task[u].out = "No rating field"
                                /\ task[v].pc = "push" /\ task[v].req.id = "s1"

\* C20: a step of a resolving unit of work changes that unit alone; its
\* pool starts empty and grows only by songs of the responses to its own
\* searches; the id it obtains belongs to an exact match of its own title in
\* its own response, to a lenient match in its own pool or to a song of its
\* own getAlbum response; that id is what pushRatings sends for the track and
\* what resolveIds writes to it, once, when the track's own unit is collected.
C20_Independent ==
    [][SameRun => \A t \in Tracks :
        /\ (Resolving(t) /\ task'[t] # task[t])
           => (subsonic_id' = subsonic_id /\ \A u \in Tracks \ {t} : task'[u] = task[u])
        /\ (task'[t].pc = "search" /\ task[t].pc \in {"idle", "queued"}) => task'[t].pool = <<>>
        /\ Steps(t, "search") => \A raw \in SearchResponses : SearchResponse(t, raw) =>
              LET got == IF OkSongs(raw) THEN raw.data.song ELSE <<>>
              IN /\ \E n \in 0..Len(got) :
                        /\ task'[t].pool = task[t].pool \o SubSeq(got, 1, n)
                        /\ task'[t].out = "Exact title match found"
                           => (n >= 1 /\ task'[t].id = got[n].id /\ SameIgnoringCase(items[t].title, got[n].title))
                 /\ task'[t].out = "Lenient match found"
                    => \E i \in LenientAt(items[t].title, task'[t].pool) : task'[t].id = task'[t].pool[i].id
        /\ (task[t].pc \in {"albumSearch", "getAlbum"} /\ task'[t] # task[t]) => task'[t].pool = task[t].pool
        /\ Steps(t, "getAlbum") => \A raw \in GetAlbumResponses :
              (GetAlbumResponse(t, raw) /\ task'[t].id # None)
              => (OkSongs(raw) /\ \E i \in SongAt(items[t].title, raw.data.song) : task'[t].id = raw.data.song[i].id)
        /\ (Resolving(t) /\ task'[t].pc = "push") => task'[t].req.id = task'[t].id
        /\ subsonic_id'[t] # subsonic_id[t]
           => (task[t].pc = "done" /\ subsonic_id'[t] = task[t].id /\ stores[t] = 0 /\ stores'[t] = 1)
    ]_vars

\* C20 witness: in one rating batch the second track's resolved id is being
\* sent while the first track is still in its cascade with a pool of its own
C20_Witness ==
    /\ op.name = "rate" /\ N = 2
    /\ task[1].pc = "search" /\ task[1].pool = <<S3>>
    /\ task[2].pc = "push" /\ task[2].req.id = "s3" /\ task[2].pool = <<S1, S3>>

\* C21: in pushScrobbles a scrobble request is in flight only for an item that
\* has a last-played timestamp and an id that is not none: the request
\* carries an id, and the id stored on the item, when one is stored, is not
\* none.
C21_ScrobbleGuard ==
    op.name = "scrobble" => \A t \in Tracks :
        task[t].pc = "push"
        => /\ task[t].req.endpoint = "scrobble"
           /\ hasattr(items[t], "plex_lastviewedat")
           /\ task[t].req.id # None
           /\ subsonic_id[t] # None

====
